---- MODULE Spec2Model ----
(***************************************************************************)
(* 3D Print Weight Estimator (src/app.py).                                 *)
(*                                                                         *)
(* Numbers.  The inputs of the formula are carried as integers with fixed  *)
(* scales:                                                                 *)
(*   volume            mm3 (integer), volume_cm3 = mm3 / 1000              *)
(*   material_density  hundredths of g/cm3   (1.24 is 124)                 *)
(*   infill_density    percent, as the slider gives it (0..100)            *)
(*   wall_thickness, top_bottom_thickness    tenths of a mm (1.2 is 12)    *)
(*   layer_height      hundredths of a mm    (0.3 is 30)                   *)
(*   a weight          hundredths of a gram  (7.12 is 712)                 *)
(* The program computes in IEEE binary64.  The model computes the weight   *)
(* exactly and rounds it to the nearest hundredth; where the exact weight  *)
(* is, within the rounding error of the float computation, halfway between *)
(* two hundredths, it computes the double the program computes and rounds  *)
(* that, as round(weight, 2) does.  A non-finite volume (nan, inf, -inf)   *)
(* is carried as a kind.                                                   *)
(***************************************************************************)
EXTENDS Integers, Sequences, FiniteSets, TLC

\* ------------------------------------------------------------------ bounds
\* Largest integer factor applied to a volume or a density.
MaxFactor == 3
\* Largest number of widget edits followed in one browser session.
MaxEdits == 2

\* ------------------------------------------------------- values and scales
\* mm3 per cm3 (line 62).
MM3_PER_CM3 == 1000
\* infill_density / 100.0 (line 65).
PERCENT == 100
\* Limb of the wide product below.
LIMB == 10000

Abs(n) == IF n < 0 THEN -n ELSE n
Sign(n) == IF n < 0 THEN -1 ELSE 1

\* mesh.volume as the mesh library reports it.
Fin(n) == [kind |-> "fin", mm3 |-> n]
NaNVol == [kind |-> "nan", mm3 |-> 0]
InfVol == [kind |-> "inf", mm3 |-> 0]
NegInfVol == [kind |-> "ninf", mm3 |-> 0]

\* An uploaded file: whether trimesh.load succeeds on it (lines 23, 61),
\* whether lines 24-53 draw the mesh without an exception, whether
\* mesh.volume (line 62) is computed without an exception, and the volume.
StlFile(ok, dr, me, vol) == [loads |-> ok, draws |-> dr, measures |-> me, volume |-> vol]
\* A mesh that loads, is drawn and has a volume.
Mesh(vol) == StlFile(TRUE, TRUE, TRUE, vol)
\* A file trimesh.load raises on.
BadFile == StlFile(FALSE, FALSE, FALSE, Fin(0))
\* A mesh that loads and has a volume, but that show_stl fails to draw.
Undrawable(vol) == StlFile(TRUE, FALSE, TRUE, vol)
\* A mesh that loads and is drawn, but whose volume raises.
Unmeasured == StlFile(TRUE, TRUE, FALSE, Fin(0))

\* What calculate_weight returns: a float (finite, in hundredths of a gram,
\* or nan / inf / -inf) or None.
Num(c) == [kind |-> "num", cents |-> c]
NaNW == [kind |-> "nan", cents |-> 0]
InfW == [kind |-> "inf", cents |-> 0]
NegInfW == [kind |-> "ninf", cents |-> 0]
NoneW == [kind |-> "None", cents |-> 0]
\* No call was made.
NotCalled == [kind |-> "notcalled", cents |-> 0]

\* materials (lines 83-89), g/cm3 in hundredths.
materials == [PLA |-> 124, ABS |-> 104, PETG |-> 127, Nylon |-> 115, TPU |-> 121]

\* infill_patterns (line 91).
infill_patterns == {"Grid", "Gyroid", "Cubic", "Triangles", "Honeycomb"}

\* ------------------------------------------------------ calculate_weight
\* line 62: volume_cm3 = mesh.volume / 1000, as its numerator over 1000.
volume_cm3_floordiv(mm3) == (mm3 \div MM3_PER_CM3) * MM3_PER_CM3
volume_cm3(mm3) == mm3

\* line 71: shell_factor = 1 + (wall_thickness / 2.0) * (1 - infill),
\* as its numerator over 2000 (wall in tenths, infill in percent).
shell_factor_multiplies(wall_thickness, infill) ==
    2000 + 4 * wall_thickness * (PERCENT - infill)
shell_factor(wall_thickness, infill) ==
    2000 + wall_thickness * (PERCENT - infill)

\* line 72: top_bottom_factor = 1 + (top_bottom / 5.0) * (1 - infill),
\* as its numerator over 5000.
top_bottom_factor(top_bottom, infill) ==
    5000 + top_bottom * (PERCENT - infill)

\* line 74, the bracket: 0.1 + 0.7 * infill + 0.2 * shell_factor * top_bottom_factor,
\* as its numerator over 5 * 10^7.
blend_06(infill, sf, tbf) == 5000000 + 300000 * infill + sf * tbf
blend(infill, sf, tbf) == 5000000 + 350000 * infill + sf * tbf

\* a * b for 0 <= a, b, as <<hi, lo>> with a * b = hi * 10^8 + lo, 0 <= lo < 10^8.
MulWide(a, b) ==
    LET a1 == a \div LIMB
        a0 == a % LIMB
        b1 == b \div LIMB
        b0 == b % LIMB
        mid == a1 * b0 + a0 * b1
        low == (mid % LIMB) * LIMB + a0 * b0
    IN  <<a1 * b1 + (mid \div LIMB) + (low \div (LIMB * LIMB)), low % (LIMB * LIMB)>>

\* lines 74-75: adjusted_volume = volume_cm3 * (...); weight = adjusted_volume * density.
\* The magnitude of the weight, in units of 1 / (5 * 10^12) g, as <<hi, lo>>.
weight_magnitude(mm3, density, bl) == MulWide(Abs(volume_cm3(mm3)) * density, bl)

\* ------------------------------------------------- binary64 arithmetic
\* The floats of lines 62-77 are IEEE binary64.  A non-negative integer of
\* any size is a sequence of limbs, least significant first, without leading
\* zero limbs; a double is sign * m * 2^e with m of exactly 53 bits (or zero).
BASE == 32768
LIMB_BITS == 15
MANT_BITS == 53

Limb(a, i) == IF i <= Len(a) THEN a[i] ELSE 0
Zeros(n) == [i \in 1..n |-> 0]

RECURSIVE BNorm(_)
BNorm(a) ==
    IF a = <<>> THEN a
    ELSE IF a[Len(a)] = 0 THEN BNorm(SubSeq(a, 1, Len(a) - 1)) ELSE a

RECURSIVE BFromInt(_)
BFromInt(n) == IF n = 0 THEN <<>> ELSE <<n % BASE>> \o BFromInt(n \div BASE)

RECURSIVE BToInt(_)
BToInt(a) == IF a = <<>> THEN 0 ELSE a[1] + BASE * BToInt(Tail(a))

RECURSIVE BAddFrom(_, _, _, _)
BAddFrom(a, b, i, c) ==
    IF i > Len(a) /\ i > Len(b) THEN (IF c = 0 THEN <<>> ELSE <<c>>)
    ELSE LET s == Limb(a, i) + Limb(b, i) + c
         IN  <<s % BASE>> \o BAddFrom(a, b, i + 1, s \div BASE)
BAdd(a, b) == BNorm(BAddFrom(a, b, 1, 0))

\* a - b for a >= b.
RECURSIVE BSubFrom(_, _, _, _)
BSubFrom(a, b, i, br) ==
    IF i > Len(a) THEN <<>>
    ELSE LET d == a[i] - Limb(b, i) - br
         IN  <<(d + BASE) % BASE>> \o BSubFrom(a, b, i + 1, IF d < 0 THEN 1 ELSE 0)
BSub(a, b) == BNorm(BSubFrom(a, b, 1, 0))

\* a * k for 0 <= k < 2^16.
RECURSIVE BMulSmallFrom(_, _, _, _)
BMulSmallFrom(a, k, i, c) ==
    IF i > Len(a) THEN BFromInt(c)
    ELSE LET p == a[i] * k + c
         IN  <<p % BASE>> \o BMulSmallFrom(a, k, i + 1, p \div BASE)
BMulSmall(a, k) == BNorm(BMulSmallFrom(a, k, 1, 0))

RECURSIVE BMulFrom(_, _, _)
BMulFrom(a, b, i) ==
    IF i > Len(b) THEN <<>>
    ELSE BAdd(Zeros(i - 1) \o BMulSmall(a, b[i]), BMulFrom(a, b, i + 1))
BMul(a, b) == BNorm(BMulFrom(a, b, 1))

\* <<a \div k, a % k>> for 0 < k < 2^16, from the top limb down.
RECURSIVE BDivSmallFrom(_, _, _, _)
BDivSmallFrom(a, k, i, r) ==
    IF i = 0 THEN <<<<>>, r>>
    ELSE LET cur == r * BASE + a[i]
             rest == BDivSmallFrom(a, k, i - 1, cur % k)
         IN  <<Append(rest[1], cur \div k), rest[2]>>
NormQuotient(qr) == <<BNorm(qr[1]), qr[2]>>
BDivSmall(a, k) == NormQuotient(BDivSmallFrom(a, k, Len(a), 0))

\* -1, 0, 1 as a < b, a = b, a > b.
RECURSIVE BCmpFrom(_, _, _)
BCmpFrom(a, b, i) ==
    IF i = 0 THEN 0
    ELSE IF a[i] < b[i] THEN -1
    ELSE IF a[i] > b[i] THEN 1
    ELSE BCmpFrom(a, b, i - 1)
BCmp(a, b) ==
    IF Len(a) < Len(b) THEN -1
    ELSE IF Len(a) > Len(b) THEN 1
    ELSE BCmpFrom(a, b, Len(a))

RECURSIVE BitLenSmall(_)
BitLenSmall(n) == IF n = 0 THEN 0 ELSE 1 + BitLenSmall(n \div 2)
BitLen(a) == IF a = <<>> THEN 0 ELSE LIMB_BITS * (Len(a) - 1) + BitLenSmall(a[Len(a)])

RECURSIVE Pow2(_)
Pow2(k) == IF k = 0 THEN 1 ELSE 2 * Pow2(k - 1)

BShl(a, k) ==
    IF a = <<>> THEN a
    ELSE Zeros(k \div LIMB_BITS) \o BMulSmall(a, Pow2(k % LIMB_BITS))
BShr(a, k) ==
    IF k \div LIMB_BITS >= Len(a) THEN <<>>
    ELSE BDivSmall(SubSeq(a, k \div LIMB_BITS + 1, Len(a)), Pow2(k % LIMB_BITS))[1]
BOdd(a) == a # <<>> /\ a[1] % 2 = 1

\* The integer nearest to (a + s) / 2^k, halves to even, where s is zero, or
\* for sticky a positive amount below one.
RoundUp(q, c, sticky) ==
    IF c > 0 \/ (c = 0 /\ (sticky \/ BOdd(q))) THEN BAdd(q, <<1>>) ELSE q
RoundQuotient(a, k, q, sticky) ==
    RoundUp(q, BCmp(BSub(a, BShl(q, k)), BShl(<<1>>, k - 1)), sticky)
RoundShift(a, k, sticky) ==
    IF k = 0 THEN a ELSE RoundQuotient(a, k, BShr(a, k), sticky)

Double(neg, m, e) == [neg |-> neg, m |-> m, e |-> e]
DZero == Double(FALSE, <<>>, 0)

\* The double nearest to (n + s) * 2^e, halves to even (the rounding of every
\* binary64 operation).
Renormalised(neg, m, e) ==
    IF BitLen(m) > MANT_BITS THEN Double(neg, BShr(m, 1), e + 1)
    ELSE Double(neg, m, e)
DRoundLen(neg, n, e, sticky, len) ==
    IF len <= MANT_BITS
    THEN Double(neg, BShl(n, MANT_BITS - len), e - (MANT_BITS - len))
    ELSE Renormalised(neg, RoundShift(n, len - MANT_BITS, sticky),
                      e + (len - MANT_BITS))
DRound(neg, n, e, sticky) ==
    IF n = <<>> THEN DZero ELSE DRoundLen(neg, n, e, sticky, BitLen(n))

DFromInt(n) == DRound(n < 0, BFromInt(IF n < 0 THEN -n ELSE n), 0, FALSE)

DNeg(x) == IF x.m = <<>> THEN x ELSE Double(~x.neg, x.m, x.e)

\* x + y.
SignedSum(neg, n, e) == DRound(neg, n, e, FALSE)
Difference(xneg, yneg, a, b, e, c) ==
    IF c = 0 THEN DZero
    ELSE SignedSum(IF c > 0 THEN xneg ELSE yneg,
                   IF c > 0 THEN BSub(a, b) ELSE BSub(b, a), e)
Aligned(xneg, yneg, a, b, e) ==
    IF xneg = yneg THEN SignedSum(xneg, BAdd(a, b), e)
    ELSE Difference(xneg, yneg, a, b, e, BCmp(a, b))
AlignTo(x, y, e) ==
    Aligned(x.neg, y.neg, BShl(x.m, x.e - e), BShl(y.m, y.e - e), e)
DAdd(x, y) ==
    IF x.m = <<>> THEN y
    ELSE IF y.m = <<>> THEN x
    ELSE AlignTo(x, y, IF x.e < y.e THEN x.e ELSE y.e)

\* x - y.
DSub(x, y) == DAdd(x, DNeg(y))

\* x * y.
DMul(x, y) == DRound(x.neg # y.neg, BMul(x.m, y.m), x.e + y.e, FALSE)

\* x / k for an integer 0 < k < 2^16.
DQuotient(neg, qr, e) == DRound(neg, qr[1], e, qr[2] # 0)
DDivSmall(x, k) ==
    DQuotient(x.neg, BDivSmall(BShl(x.m, LIMB_BITS), k), x.e - LIMB_BITS)

\* The double a decimal literal or widget value n / d denotes.
DRatio(n, d) == DDivSmall(DFromInt(n), d)

\* Python's round(x, 2) in hundredths: the integer nearest to 100 x, halves
\* (x being exactly between two hundredths) to even.
Signed(neg, n) == IF neg THEN -n ELSE n
Scaled(n, e) == IF e >= 0 THEN BShl(n, e) ELSE RoundShift(n, -e, FALSE)
DRoundCents(x) == Signed(x.neg, BToInt(Scaled(BMulSmall(x.m, 100), x.e)))

\* lines 62-75 in binary64, each float operation rounded as the machine
\* rounds it: shell_factor, top_bottom_factor, adjusted_volume and weight.
shell_factor_double(wall, infill) ==
    DAdd(DFromInt(1), DMul(DDivSmall(wall, 2), DSub(DFromInt(1), infill)))
top_bottom_factor_double(top_bottom, infill) ==
    DAdd(DFromInt(1), DMul(DDivSmall(top_bottom, 5), DSub(DFromInt(1), infill)))
adjusted_volume_double(volume, infill, sf, tbf) ==
    DMul(volume, DAdd(DAdd(DRatio(1, 10), DMul(DRatio(7, 10), infill)),
                      DMul(DMul(DRatio(2, 10), sf), tbf)))
weight_of(volume, density, infill, wall, top_bottom) ==
    DMul(adjusted_volume_double(volume, infill,
                                shell_factor_double(wall, infill),
                                top_bottom_factor_double(top_bottom, infill)),
         density)
weight_double(mm3, params) ==
    weight_of(DDivSmall(DFromInt(volume_cm3(mm3)), MM3_PER_CM3),
              DRatio(params.material_density, 100),
              DDivSmall(DFromInt(params.infill_density), PERCENT),
              DRatio(params.wall_thickness, 10),
              DRatio(params.top_bottom_thickness, 10))

\* Whether the exact weight w is, within the rounding error of lines 62-75,
\* halfway between two hundredths.  The double differs from the exact weight
\* by less than 2 * 10^-15 of it (some twenty roundings of 2^-53 each, on
\* positive terms), that is by less than q / 10000 units for a weight of q
\* hundredths; twice that is allowed for.
NearHalf(w) ==
    LET q == w[1] \div 500
        r == w[1] % 500
    IN  \/ r = 250 /\ w[2] <= q \div 5000
        \/ r = 249 /\ LIMB * LIMB - w[2] <= q \div 5000

\* line 77: round(weight, 2), in hundredths of a gram, for the weight whose
\* exact magnitude is w (one hundredth is 5 * 10^10 units, that is 500 in hi)
\* and whose double is x.  Away from the halves x lies on the same side of
\* the half as w; near one the double decides.
round2(sgn, w, x) ==
    IF NearHalf(w) THEN DRoundCents(x)
    ELSE LET q == w[1] \div 500
             r == w[1] % 500
             up == r > 250 \/ (r = 250 /\ w[2] > 0)
         IN  sgn * (q + (IF up THEN 1 ELSE 0))

\* lines 64-77 on a finite volume: the value returned, in hundredths of a gram.
finite_weight_uses_layer_height(mm3, params) ==
    LET density == params.material_density
        infill == params.infill_density
        sf == shell_factor(params.wall_thickness, infill)
        tbf == top_bottom_factor(params.layer_height, infill)
    IN  round2(Sign(mm3), weight_magnitude(mm3, density, blend(infill, sf, tbf)),
               weight_double(mm3, params))
finite_weight(mm3, params) ==
    LET density == params.material_density
        infill == params.infill_density
        sf == shell_factor(params.wall_thickness, infill)
        tbf == top_bottom_factor(params.top_bottom_thickness, infill)
    IN  round2(Sign(mm3), weight_magnitude(mm3, density, blend(infill, sf, tbf)),
               weight_double(mm3, params))

\* An exception raised inside the try body.
Raised == [kind |-> "raised", cents |-> 0]

\* lines 62-77, the try body once the mesh is loaded.  Float arithmetic raises
\* nothing: a nan or infinite volume goes through the products (every other
\* factor is finite and positive) and through round unchanged.
try_body_rejects_nonpositive(volume, params) ==
    IF volume.kind = "fin" /\ volume.mm3 > 0
    THEN Num(finite_weight(volume.mm3, params))
    ELSE Raised
try_body(volume, params) ==
    CASE volume.kind = "fin" -> Num(finite_weight(volume.mm3, params))
      [] volume.kind = "nan" -> NaNW
      [] volume.kind = "inf" -> InfW
      [] volume.kind = "ninf" -> NegInfW

\* The result of a call: the value returned, whether st.error was called
\* (line 79), and whether an exception left the function.
Outcome(r, e, x) == [ret |-> r, error |-> e, raised |-> x]

\* lines 78-80: except Exception: st.error(...); return None.
except_branch_reraises == Outcome(NotCalled, FALSE, TRUE)
except_branch == Outcome(NoneW, TRUE, FALSE)

\* lines 58-80.  trimesh.load (line 61) raises on a file it cannot read and
\* mesh.volume (line 62) on a mesh it cannot measure; an exception anywhere
\* in the try body ends in the except branch.
try_except(r) == IF r = Raised THEN except_branch ELSE Outcome(r, FALSE, FALSE)
calculate_weight(stl_file, params) ==
    IF ~stl_file.loads \/ ~stl_file.measures THEN except_branch
    ELSE try_except(try_body(stl_file.volume, params))

\* ------------------------------------------------------------ the form
\* The widgets of lines 109-116 and 142-162 with their default values.
\* Lengths in hundredths of a mm except the two thicknesses (tenths).
DefaultForm ==
    [material |-> "PLA", infill_density |-> 20, infill_pattern |-> "Grid",
     layer_height |-> 30, wall_thickness |-> 12, top_bottom_thickness |-> 8,
     support |-> FALSE,
     initial_layer_height |-> 30, line_width |-> 40, wall_count |-> 3,
     infill_overlap |-> 10, top_layers |-> 3, bottom_layers |-> 3,
     print_speed |-> 200, travel_speed |-> 125, enable_retraction |-> TRUE,
     adhesion_type |-> "Brim"]

Modes == {"Basic", "Advanced"}

\* Widgets both modes create with the same arguments.
SharedFields == {"material", "infill_density", "infill_pattern", "support"}
\* Widgets both modes create, with different bounds.
RangedFields == {"layer_height", "wall_thickness", "top_bottom_thickness"}
\* Widgets only the Advanced form creates (lines 144-162).
AdvancedFields ==
    {"initial_layer_height", "line_width", "wall_count", "infill_overlap",
     "top_layers", "bottom_layers", "print_speed", "travel_speed",
     "enable_retraction", "adhesion_type"}

\* The widgets the form of a mode creates.
FieldsOf(m) ==
    IF m = "Basic" THEN SharedFields \cup RangedFields
    ELSE SharedFields \cup RangedFields \cup AdvancedFields

\* The bounds of a number_input or slider of a mode, as <<min, max>>.
WidgetBounds(m, f) ==
    CASE f = "infill_density" -> <<0, 100>>
      [] f = "layer_height" -> IF m = "Basic" THEN <<5, 40>> ELSE <<5, 100>>
      [] f = "wall_thickness" -> IF m = "Basic" THEN <<4, 30>> ELSE <<4, 50>>
      [] f = "top_bottom_thickness" -> IF m = "Basic" THEN <<4, 30>> ELSE <<4, 50>>
      [] f = "initial_layer_height" -> <<5, 100>>
      [] f = "line_width" -> <<20, 100>>
      [] f \in {"wall_count", "top_layers", "bottom_layers"} -> <<1, 10>>
      [] f = "infill_overlap" -> <<0, 100>>
      [] f \in {"print_speed", "travel_speed"} -> <<10, 300>>

\* The values of a numeric widget the model follows: its bounds, its default
\* and a few values between.
Samples(f) ==
    CASE f = "infill_density" -> {0, 1, 20, 60, 100}
      [] f = "layer_height" -> {5, 30, 40, 100}
      [] f = "wall_thickness" -> {4, 12, 30, 50}
      [] f = "top_bottom_thickness" -> {4, 8, 30, 50}
      [] f = "initial_layer_height" -> {5, 30}
      [] f = "line_width" -> {40, 100}
      [] f \in {"wall_count", "top_layers", "bottom_layers"} -> {1, 3}
      [] f = "infill_overlap" -> {10, 100}
      [] f \in {"print_speed", "travel_speed"} -> {10, 125, 200}

\* The values the user can give a widget of a mode.
WidgetValues(m, f) ==
    CASE f = "material" -> DOMAIN materials
      [] f = "infill_pattern" -> infill_patterns
      [] f \in {"support", "enable_retraction"} -> BOOLEAN
      [] f = "adhesion_type" -> {"None", "Brim", "Raft", "Skirt"}
      [] OTHER -> {v \in Samples(f) :
                      WidgetBounds(m, f)[1] <= v /\ v <= WidgetBounds(m, f)[2]}

\* lines 118-125 and 164-171: the params dict, the same six keys in both modes.
build_params(m, form) ==
    [material_density |-> materials[form.material],
     infill_density |-> form.infill_density,
     wall_thickness |-> form.wall_thickness,
     top_bottom_thickness |-> form.top_bottom_thickness,
     layer_height |-> form.layer_height,
     support |-> form.support]

\* The widgets whose values reach the formula.
UsedFields == {"material", "infill_density", "wall_thickness", "top_bottom_thickness"}

\* ------------------------------------------------------------- the state
VARIABLES
    \* the browser session
    mode,           \* st.radio of line 95
    uploaded_file,  \* st.file_uploader of line 97: None or the file
    form,           \* the values of the widgets
    edits,          \* widget edits made so far
    page,           \* what the last run of the script did and displayed
    \* calculate_weight applied to related inputs
    inA, inB, inC,
    outA, outB, outC,
    pc

uivars == <<mode, uploaded_file, form, edits, page>>
calcvars == <<inA, inB, inC, outA, outB, outC, pc>>
vars == <<mode, uploaded_file, form, edits, page, inA, inB, inC, outA, outB, outC, pc>>

\* --------------------------------- calculate_weight on related inputs
\* Volumes a loaded mesh reports: an inverted mesh, a degenerate one, solids
\* of 0.125, about 0.5, about 1 and 10 cm3, and meshes with nan or infinite
\* coordinates.  125 mm3 of PLA at 100% infill weighs 0.155 g exactly, and
\* the double is just below it.
FiniteVolumes == {-8887, 0, 125, 503, 1001, 10000}
Volumes == {Fin(n) : n \in FiniteVolumes} \cup {NaNVol, InfVol, NegInfVol}
Files == {BadFile, Unmeasured, Undrawable(Fin(10000))} \cup {Mesh(v) : v \in Volumes}

\* One call: the file, and the params dict the form of a mode builds.
Input(f, m, fm) == [stl_file |-> f, mode |-> m, form |-> fm, params |-> build_params(m, fm)]

\* The forms of a mode with the advanced-only widgets at their defaults.
BaseForms(m) ==
    {[DefaultForm EXCEPT !.material = mat, !.infill_density = i,
                         !.wall_thickness = w, !.top_bottom_thickness = t] :
        mat \in WidgetValues(m, "material"), i \in WidgetValues(m, "infill_density"),
        w \in WidgetValues(m, "wall_thickness"), t \in WidgetValues(m, "top_bottom_thickness")}

Idle == Outcome(NotCalled, FALSE, FALSE)

Apply(in) == calculate_weight(in.stl_file, in.params)

\* ------------------------------------------------------ the script run
\* uploaded_file is None (no file) or the uploaded file.
None == <<>>
Uploaded(f) == <<f>>

\* lines 20-55, show_stl: the chart, or the warning of line 55 when
\* trimesh.load or anything else of lines 23-53 raises.
show_stl(file) ==
    [chart |-> file.loads /\ file.draws, viz_warning |-> ~(file.loads /\ file.draws)]

\* `if weight:` (lines 132 and 178): None and 0.0 are false, every other
\* float (nan and the infinities included) is true.
truthy(w) == w.kind # "None" /\ ~(w.kind = "num" /\ w.cents = 0)

\* What a button's branch did: the warning of lines 129/175, the call of lines
\* 131/177 and its result, and the estimate of lines 133-134/179-180.
Handled(wa, ca, o, est) ==
    [warning |-> wa, called |-> ca, weight |-> o.ret, error |-> o.error,
     estimate |-> est, raised |-> o.raised]

\* The button was not pressed in this run.
NotPressed == Handled(FALSE, FALSE, Idle, NotCalled)

\* lines 128-134 and 174-180: the body of `if st.button(...)`.
\* lines 131-134 and 177-180 once calculate_weight gave the outcome o:
\* `if weight:` and the estimate.
if_weight(o) ==
    Handled(FALSE, TRUE, o,
            IF ~o.raised /\ truthy(o.ret) THEN o.ret ELSE NotCalled)
estimate_button_no_file_check(file, params) ==
    IF file = None THEN Handled(FALSE, TRUE, except_branch, NotCalled)
    ELSE if_weight(calculate_weight(file[1], params))
estimate_button(file, params) ==
    IF file = None THEN Handled(TRUE, FALSE, Idle, NotCalled)
    ELSE if_weight(calculate_weight(file[1], params))

\* line 104: if mode == "Basic"; line 137: if mode == "Advanced".
basic_selected(m) == m = "Basic"
advanced_selected(m) == m = "Advanced"

\* The modes whose form and button a run creates.
forms_created(m) ==
    {x \in Modes : \/ x = "Basic" /\ basic_selected(m)
                   \/ x = "Advanced" /\ advanced_selected(m)}

\* One run of the script, lines 94-184: the mode m, the uploaded file, the
\* widget values fm, and the button the user clicked ("none" when the run
\* was started by anything else).  A button returns True only in the run its
\* click started, and only if the run creates it.
button_pressed(m, click) == IF click \in forms_created(m) THEN click ELSE "none"
button_branch(file, fm, pressed) ==
    IF pressed = "none" THEN NotPressed
    ELSE estimate_button(file, build_params(pressed, fm))
rendered(m, file, pressed, h) ==
    [success |-> file # None,
     chart |-> file # None /\ show_stl(file[1]).chart,
     viz_warning |-> file # None /\ show_stl(file[1]).viz_warning,
     forms |-> forms_created(m),
     clicked |-> pressed,
     warning |-> h.warning,
     called |-> h.called,
     weight |-> h.weight,
     error |-> h.error,
     estimate |-> h.estimate,
     footer |-> ~h.raised]
script(m, file, fm, click) ==
    rendered(m, file, button_pressed(m, click),
             button_branch(file, fm, button_pressed(m, click)))

\* The session as the first run of the script leaves it: Basic mode, no
\* file, every widget at its default.
UIInit ==
    /\ mode = "Basic"
    /\ uploaded_file = None
    /\ form = DefaultForm
    /\ edits = 0
    /\ page = script("Basic", None, DefaultForm, "none")

CalcIdle ==
    /\ inA = Input(BadFile, "Basic", DefaultForm)
    /\ inB = inA
    /\ inC = inA
    /\ outA = Idle
    /\ outB = Idle
    /\ outC = Idle
    /\ pc = "off"

InitCalc ==
    /\ UIInit
    /\ \E f \in Files, m \in Modes : \E fm \in BaseForms(m) : inA = Input(f, m, fm)
    /\ inB = inA
    /\ inC = inA
    /\ outA = Idle
    /\ outB = Idle
    /\ outC = Idle
    /\ pc = "inputs"

\* Evaluate the three inputs.
Evaluate(a, b, c) ==
    /\ pc = "inputs"
    /\ pc' = "done"
    /\ inA' = a
    /\ inB' = b
    /\ inC' = c
    /\ outA' = Apply(a)
    /\ outB' = Apply(b)
    /\ outC' = Apply(c)
    /\ UNCHANGED uivars

LoadedFinite(in) ==
    in.stl_file.loads /\ in.stl_file.measures /\ in.stl_file.volume.kind = "fin"

WithVolume(in, n) == [in EXCEPT !.stl_file.volume = Fin(n)]

\* One estimate.
EstimateOnce == Evaluate(inA, inA, inA)

\* The same file and form with another infill density.
EstimateOtherInfill ==
    \E i \in WidgetValues(inA.mode, "infill_density") \ {inA.form.infill_density} :
        LET fm == [inA.form EXCEPT !.infill_density = i]
        IN  Evaluate(inA, Input(inA.stl_file, inA.mode, fm), inA)

\* The same form on a mesh of k times the volume.
EstimateScaledVolume ==
    /\ LoadedFinite(inA)
    /\ \E k \in 1..MaxFactor :
        Evaluate(inA, WithVolume(inA, k * inA.stl_file.volume.mm3), inA)

\* The same file and params with k times the density.
EstimateScaledDensity ==
    \E k \in 1..MaxFactor :
        Evaluate(inA,
                 [inA EXCEPT !.params.material_density = k * inA.params.material_density],
                 inA)

\* The same form on two meshes and on a mesh of their volumes together.
EstimateSumVolume ==
    /\ LoadedFinite(inA)
    /\ \E n \in FiniteVolumes :
        Evaluate(inA, WithVolume(inA, n), WithVolume(inA, inA.stl_file.volume.mm3 + n))

\* The same file with one widget that does not reach the formula changed.
EstimateOtherField ==
    \E f \in FieldsOf(inA.mode) \ UsedFields :
        \E v \in WidgetValues(inA.mode, f) \ {inA.form[f]} :
            Evaluate(inA, Input(inA.stl_file, inA.mode, [inA.form EXCEPT ![f] = v]), inA)

\* The same file and widget values entered in the other mode.
EstimateOtherMode ==
    \E m \in Modes \ {inA.mode} :
        /\ \A f \in RangedFields : inA.form[f] \in WidgetValues(m, f)
        /\ Evaluate(inA, Input(inA.stl_file, m, inA.form), inA)

NextCalc ==
    \/ EstimateOnce
    \/ EstimateOtherInfill
    \/ EstimateScaledVolume
    \/ EstimateScaledDensity
    \/ EstimateSumVolume
    \/ EstimateOtherField
    \/ EstimateOtherMode

SpecCalc == InitCalc /\ [][NextCalc]_vars

\* ------------------------------------------------ claims on calculate_weight
Done == pc = "done"

\* The calls made, each with its result.
Runs == {[in |-> inA, out |-> outA], [in |-> inB, out |-> outB], [in |-> inC, out |-> outC]}

Loaded(in) == in.stl_file.loads /\ in.stl_file.measures
Mm3(in) == in.stl_file.volume.mm3
IsNumber(w) == w.kind = "num"

SameParams(x, y) == x.params = y.params
SameThickness(x, y) ==
    /\ x.params.wall_thickness = y.params.wall_thickness
    /\ x.params.top_bottom_thickness = y.params.top_bottom_thickness
SameFive(x, y) ==
    /\ x.stl_file = y.stl_file
    /\ x.params.material_density = y.params.material_density
    /\ x.params.infill_density = y.params.infill_density
    /\ SameThickness(x, y)

\* C1 (as stated): a loaded mesh whose volume is negative or not finite makes
\* calculate_weight report an error and return None, never a negative weight.
C1_NegativeOrNonFiniteVolumeIsError ==
    Done =>
        \A r \in Runs :
            (Loaded(r.in) /\ (r.in.stl_file.volume.kind # "fin" \/ Mm3(r.in) < 0))
                => (r.out.error /\ r.out.ret = NoneW)

\* The infill comparison of two calls on the same positive volume, density
\* and thicknesses.
InfillPair(x, y) ==
    /\ LoadedFinite(x.in) /\ Mm3(x.in) > 0
    /\ x.in.stl_file = y.in.stl_file
    /\ x.in.params.material_density = y.in.params.material_density
    /\ SameThickness(x.in, y.in)
    /\ x.in.params.infill_density < y.in.params.infill_density

\* C2 (as stated): with volume, density and thicknesses fixed, the weight
\* never decreases when the infill density increases.
C2_WeightNeverDecreasesWithInfill ==
    Done =>
        \A x \in Runs, y \in Runs :
            InfillPair(x, y) => x.out.ret.cents <= y.out.ret.cents

\* 0.2 * (w/2 + t/5) + 0.4 * (w/2) * (t/5) <= 0.7 for w, t in mm, that is
\* 10 w + 4 t + 4 w t <= 70, on thicknesses in tenths of a mm.
ShellTermBounded(p) ==
    25 * p.wall_thickness + 10 * p.top_bottom_thickness
        + p.wall_thickness * p.top_bottom_thickness <= 1750

\* C2 (amended): with volume, density and thicknesses fixed, the weight never
\* decreases when the infill density increases, provided the thicknesses
\* satisfy 10 w + 4 t + 4 w t <= 70 (w, t in mm).
C2_MonotoneWhenShellTermBounded ==
    Done =>
        \A x \in Runs, y \in Runs :
            (InfillPair(x, y) /\ ShellTermBounded(x.in.params))
                => x.out.ret.cents <= y.out.ret.cents

\* C2 witness: a wall of 5 mm, inside the bound, and a weight that grew with
\* the infill.
C2_Witness ==
    /\ Done
    /\ InfillPair([in |-> inA, out |-> outA], [in |-> inB, out |-> outB])
    /\ ShellTermBounded(inA.params)
    /\ inA.params.wall_thickness = 50
    /\ outA.ret.cents < outB.ret.cents

\* C3: a loaded mesh of volume exactly 0 gives the number 0.00, with no error
\* reported and no exception.
C3_ZeroVolumeGivesZero ==
    Done =>
        \A r \in Runs :
            (Loaded(r.in) /\ r.in.stl_file.volume = Fin(0))
                => r.out = Outcome(Num(0), FALSE, FALSE)

\* C3 witness: a zero-volume mesh estimated with settings other than the defaults.
C3_Witness ==
    /\ Done
    /\ Loaded(inA) /\ inA.stl_file.volume = Fin(0)
    /\ inA.form # DefaultForm
    /\ outA.ret = Num(0)

\* The formula of the claim, as one expression: the numerator of
\* 0.1 + 0.7 i + 0.2 (1 + (w/2)(1 - i)) (1 + (t/5)(1 - i)) over 5 * 10^7.
ClaimBracket(p) ==
    5000000 + 350000 * p.infill_density
        + (2000 + p.wall_thickness * (100 - p.infill_density))
            * (5000 + p.top_bottom_thickness * (100 - p.infill_density))
ClaimWeight(mm3, p) ==
    round2(Sign(mm3), MulWide(Abs(mm3) * p.material_density, ClaimBracket(p)),
           weight_double(mm3, p))

ExampleParams(p) ==
    /\ p.material_density = 124
    /\ p.infill_density = 20
    /\ p.wall_thickness = 12
    /\ p.top_bottom_thickness = 8

\* C4: for a loaded mesh of finite volume the value returned is the formula
\* rounded to two decimals; 10000 mm3 of PLA at 20% infill, 1.2 mm walls and
\* 0.8 mm top/bottom gives 7.12.
C4_ReturnsRoundedFormula ==
    Done =>
        \A r \in Runs :
            LoadedFinite(r.in) =>
                /\ r.out = Outcome(Num(ClaimWeight(Mm3(r.in), r.in.params)), FALSE, FALSE)
                /\ (Mm3(r.in) = 10000 /\ ExampleParams(r.in.params))
                        => r.out.ret = Num(712)

\* C4 witness: the example of the claim evaluated.
C4_Witness ==
    /\ Done
    /\ LoadedFinite(inA) /\ Mm3(inA) = 10000 /\ ExampleParams(inA.params)
    /\ outA.ret = Num(712)

\* B is A on k times the volume; B is A at k times the density; C is A on the
\* volumes of A and B together.
ScaledVolume(k) ==
    /\ LoadedFinite(inA) /\ LoadedFinite(inB) /\ SameParams(inA, inB)
    /\ Mm3(inB) = k * Mm3(inA)
ScaledDensity(k) ==
    /\ LoadedFinite(inA) /\ inB.stl_file = inA.stl_file
    /\ inB.params = [inA.params EXCEPT !.material_density = k * inA.params.material_density]
SumVolume ==
    /\ LoadedFinite(inA) /\ LoadedFinite(inB) /\ LoadedFinite(inC)
    /\ SameParams(inA, inB) /\ SameParams(inA, inC)
    /\ Mm3(inC) = Mm3(inA) + Mm3(inB)

\* C5 (as stated): k times the volume, or k times the density, gives k times
\* the weight, and the weight of two volumes together is the sum of their weights.
C5_WeightIsLinear ==
    Done =>
        /\ \A k \in 1..MaxFactor :
            (ScaledVolume(k) \/ ScaledDensity(k))
                => outB.ret.cents = k * outA.ret.cents
        /\ SumVolume => outC.ret.cents = outA.ret.cents + outB.ret.cents

\* C5 (amended): the returned weight is linear in the volume and in the
\* density up to the rounding to two decimals: the weight at k times the
\* volume (or density) is within (k + 1) / 2 hundredths of a gram of k times
\* the weight, and the weight of two volumes together within one hundredth
\* of the sum of their weights.
C5_WeightIsLinearUpToRounding ==
    Done =>
        /\ \A k \in 1..MaxFactor :
            (ScaledVolume(k) \/ ScaledDensity(k))
                => 2 * Abs(outB.ret.cents - k * outA.ret.cents) <= k + 1
        /\ SumVolume => Abs(outC.ret.cents - outA.ret.cents - outB.ret.cents) <= 1

\* C5 witness: a positive volume scaled by k > 1 whose weight is not k times
\* the weight, rounding having taken its part.
C5_Witness ==
    /\ Done
    /\ Mm3(inA) > 0
    /\ \E k \in 2..MaxFactor :
        /\ ScaledVolume(k)
        /\ outB.ret.cents # k * outA.ret.cents

\* C6 (as stated): at infill 0 or 100 every loaded mesh gets a finite,
\* non-negative number.
C6_BoundaryInfillGivesFiniteNonNegative ==
    Done =>
        \A r \in Runs :
            (Loaded(r.in) /\ r.in.params.infill_density \in {0, 100})
                => (IsNumber(r.out.ret) /\ r.out.ret.cents >= 0)

\* C7: two calls that agree on the mesh, the density, the infill density and
\* the two thicknesses have the same result, whatever the mode and the other
\* widgets.
C7_WeightDependsOnlyOnFiveInputs ==
    Done =>
        \A x \in Runs, y \in Runs :
            SameFive(x.in, y.in) => x.out = y.out

\* C7 witness: the same five values with another layer height, both calls
\* giving the same positive weight.
C7_Witness ==
    /\ Done
    /\ SameFive(inA, inB)
    /\ inA.params.layer_height # inB.params.layer_height
    /\ IsNumber(outA.ret) /\ outA.ret.cents > 0
    /\ outA = outB

\* ------------------------------------------------------ the browser session
\* Every interaction reruns the script from the top with the widget values
\* of the moment (Streamlit's execution model); what the previous run
\* displayed is replaced.
Rerun(m, file, fm, click) == page' = script(m, file, fm, click)

\* A widget a run does not create loses its value: after a change of mode the
\* number inputs the two forms declare differently, and the advanced-only ones,
\* start from their defaults.
AfterModeChange(fm) ==
    [f \in DOMAIN fm |-> IF f \in SharedFields THEN fm[f] ELSE DefaultForm[f]]

\* line 95: the user selects the other mode.
SelectMode ==
    \E m \in Modes \ {mode} :
        /\ mode' = m
        /\ form' = AfterModeChange(form)
        /\ Rerun(m, uploaded_file, form', "none")
        /\ UNCHANGED <<uploaded_file, edits>>
        /\ UNCHANGED calcvars

\* line 97: the user uploads a file.
Upload ==
    \E f \in Files :
        /\ uploaded_file # Uploaded(f)
        /\ uploaded_file' = Uploaded(f)
        /\ Rerun(mode, uploaded_file', form, "none")
        /\ UNCHANGED <<mode, form, edits>>
        /\ UNCHANGED calcvars

\* line 97: the user removes the uploaded file.
RemoveFile ==
    /\ uploaded_file # None
    /\ uploaded_file' = None
    /\ Rerun(mode, None, form, "none")
    /\ UNCHANGED <<mode, form, edits>>
    /\ UNCHANGED calcvars

\* lines 109-116, 142-162: the user changes one widget of the form on display.
Edit ==
    /\ edits < MaxEdits
    /\ \E f \in FieldsOf(mode) :
        \E v \in WidgetValues(mode, f) \ {form[f]} :
            /\ form' = [form EXCEPT ![f] = v]
            /\ edits' = edits + 1
            /\ Rerun(mode, uploaded_file, form', "none")
            /\ UNCHANGED <<mode, uploaded_file>>
            /\ UNCHANGED calcvars

\* lines 127, 173: the user presses the estimate button on display.
PressEstimate ==
    \E b \in page.forms :
        /\ Rerun(mode, uploaded_file, form, b)
        /\ UNCHANGED <<mode, uploaded_file, form, edits>>
        /\ UNCHANGED calcvars

Init == UIInit /\ CalcIdle

Next ==
    \/ SelectMode
    \/ Upload
    \/ RemoveFile
    \/ Edit
    \/ PressEstimate

Spec == Init /\ [][Next]_vars

\* ------------------------------------------------------ claims on the session
Pressed == page.clicked # "none"
EstimateShown == page.estimate # NotCalled

\* The call on this file ends in the except branch.
Fails(file) == ~file.loads \/ ~file.measures

\* C8: when calculate_weight fails (the file cannot be loaded, or the volume
\* of the mesh cannot be computed) the error is
\* reported, None is returned, the press displays no estimate, and the run
\* completes, leaving the estimate button ready for the next press; no run
\* ever ends in an exception.
C8_FailureIsCaughtAndReported ==
    /\ page.footer
    /\ (Pressed /\ uploaded_file # None /\ Fails(uploaded_file[1]))
        => /\ page.called
           /\ page.error
           /\ page.weight = NoneW
           /\ ~EstimateShown
           /\ page.forms = {mode}

\* C8 witness: an estimate pressed on a file that does not load, with the
\* error on display.
C8_Witness ==
    /\ Pressed
    /\ uploaded_file # None /\ Fails(uploaded_file[1])
    /\ page.error /\ page.weight = NoneW /\ page.footer

\* C9 (as stated): after a press with a file uploaded exactly one of the
\* estimate and the error message is on display, and a number returned by
\* calculate_weight, 0.0 included, is displayed as the estimate.
C9_PressShowsEstimateOrError ==
    (Pressed /\ uploaded_file # None)
        => /\ EstimateShown # page.error
           /\ page.weight.kind \in {"num", "nan", "inf", "ninf"}
                => page.estimate = page.weight

\* C10: calculate_weight is invoked, and an estimate displayed, only with a
\* file uploaded and the button of the selected mode pressed; a press without
\* a file shows the warning, invokes nothing and displays no estimate; a run
\* creates the form and button of one mode at most.
C10_EstimateOnlyOnPressWithFile ==
    /\ (page.called \/ EstimateShown)
        => (uploaded_file # None /\ page.clicked = mode)
    /\ (Pressed /\ uploaded_file = None)
        => (page.warning /\ ~page.called /\ ~EstimateShown)
    /\ page.warning => (Pressed /\ uploaded_file = None)
    /\ Cardinality(page.forms) <= 1

\* C10 witness: the Advanced button pressed with no file, the warning on display.
C10_Witness ==
    /\ Pressed
    /\ mode = "Advanced"
    /\ uploaded_file = None
    /\ page.warning /\ ~page.called

====
